---------------------------- MODULE Spec2Model ----------------------------
(***************************************************************************)
(* Model of listings/views.py and listings/urls.py: three ModelViewSets    *)
(* (ListingViewSet, BookingViewSet, ReviewViewSet) over three tables, the  *)
(* IsHostOrReadOnly object permission, the perform_create hooks and the    *)
(* router registry.  A request is handled in one step: permission check,   *)
(* object lookup, object permission check, validation, one row written.    *)
(***************************************************************************)
EXTENDS Integers, FiniteSets, Sequences, TLC

VARIABLES listings, bookings, reviews, nextPk, creator, resp

vars == <<listings, bookings, reviews, nextPk, creator, resp>>

(***************************************************************************)
(* Bounds of the model.                                                    *)
(***************************************************************************)
MaxRows == 3

(***************************************************************************)
(* Values.                                                                 *)
(***************************************************************************)
Users == {"alice", "bob"}
AnonymousUser == "AnonymousUser"
Callers == Users \cup {AnonymousUser}
None == "None"
Titles == {"Cabin", "Loft"}

RatingMin == 1
RatingMax == 5
\* The ratings a client sends: the two ends of the range and the values
\* just outside it.
Ratings == {RatingMin - 1, RatingMin, RatingMax, RatingMax + 1}

Views == {"ListingViewSet", "BookingViewSet", "ReviewViewSet"}

SAFE_METHODS == {"GET", "HEAD", "OPTIONS"}

is_authenticated(user) == user \in Users

Restrict(f, S) == [k \in S |-> f[k]]

(***************************************************************************)
(* Client payloads: any subset of the fields may be present.               *)
(***************************************************************************)
\* The primary keys a client may name: every key handed out so far and one
\* that was never handed out.
Pks(view) == 1 .. nextPk[view]

ListingPayloads ==
    { Restrict(full, S) : full \in [host : Users, title : Titles],
                          S \in SUBSET {"host", "title"} }

BookingPayloads ==
    { Restrict(full, S) :
        full \in [guest : Users, listing : Pks("ListingViewSet")],
        S \in SUBSET {"guest", "listing"} }

ReviewPayloads ==
    { Restrict(full, S) :
        full \in [user : Users, listing : Pks("ListingViewSet"), rating : Ratings],
        S \in SUBSET {"user", "listing", "rating"} }

Payloads(view) ==
    CASE view = "ListingViewSet" -> ListingPayloads
      [] view = "BookingViewSet" -> BookingPayloads
      [] view = "ReviewViewSet" -> ReviewPayloads

(***************************************************************************)
(* Permissions.                                                            *)
(***************************************************************************)
\* The object has a host, whoever the caller is.
IsHostOrReadOnly_has_object_permission_AnyCaller(method, user, obj) ==
    IF method \in SAFE_METHODS
    THEN TRUE
    ELSE (IF "host" \in DOMAIN obj THEN obj.host ELSE None) # None

\* The safe methods are not exempted.
IsHostOrReadOnly_has_object_permission_NoReadOnly(method, user, obj) ==
    (IF "host" \in DOMAIN obj THEN obj.host ELSE None) = user

IsHostOrReadOnly_has_object_permission(method, user, obj) ==
    IF method \in SAFE_METHODS
    THEN TRUE
    ELSE (IF "host" \in DOMAIN obj THEN obj.host ELSE None) = user

\* IsAuthenticatedOrReadOnly left out.
ListingViewSet_permission_classes_HostOnly == <<"IsHostOrReadOnly">>

ListingViewSet_permission_classes == <<"IsAuthenticatedOrReadOnly", "IsHostOrReadOnly">>

BookingViewSet_permission_classes == <<"IsAuthenticated">>

\* Reads left open, as on the listing view set.
ReviewViewSet_permission_classes_ReadOnly == <<"IsAuthenticatedOrReadOnly">>

ReviewViewSet_permission_classes == <<"IsAuthenticated">>

permission_classes(view) ==
    CASE view = "ListingViewSet" -> ListingViewSet_permission_classes
      [] view = "BookingViewSet" -> BookingViewSet_permission_classes
      [] view = "ReviewViewSet" -> ReviewViewSet_permission_classes

has_permission(perm, method, user) ==
    CASE perm = "IsAuthenticatedOrReadOnly" ->
            method \in SAFE_METHODS \/ is_authenticated(user)
      [] perm = "IsAuthenticated" -> is_authenticated(user)
      [] OTHER -> TRUE

has_object_permission(perm, method, user, obj) ==
    CASE perm = "IsHostOrReadOnly" ->
            IsHostOrReadOnly_has_object_permission(method, user, obj)
      [] OTHER -> TRUE

check_permissions(view, method, user) ==
    \A i \in DOMAIN permission_classes(view) :
        has_permission(permission_classes(view)[i], method, user)

check_object_permissions(view, method, user, obj) ==
    \A i \in DOMAIN permission_classes(view) :
        has_object_permission(permission_classes(view)[i], method, user, obj)

permission_denied(user) ==
    IF is_authenticated(user) THEN "PermissionDenied" ELSE "NotAuthenticated"

(***************************************************************************)
(* Querysets.                                                              *)
(***************************************************************************)
ListingViewSet_queryset == listings

BookingViewSet_queryset == bookings

ReviewViewSet_queryset == reviews

queryset(view) ==
    CASE view = "ListingViewSet" -> ListingViewSet_queryset
      [] view = "BookingViewSet" -> BookingViewSet_queryset
      [] view = "ReviewViewSet" -> ReviewViewSet_queryset

(***************************************************************************)
(* Serializers: the writable fields of each entity and their validation.   *)
(***************************************************************************)
\* The host of a listing is writable.
read_only_fields_HostWritable(view) ==
    CASE view = "ListingViewSet" -> {}
      [] view = "BookingViewSet" -> {"guest"}
      [] view = "ReviewViewSet" -> {"user"}

read_only_fields(view) ==
    CASE view = "ListingViewSet" -> {"host"}
      [] view = "BookingViewSet" -> {"guest"}
      [] view = "ReviewViewSet" -> {"user"}

required_fields(view) ==
    CASE view = "ListingViewSet" -> {"title"}
      [] view = "BookingViewSet" -> {"listing"}
      [] view = "ReviewViewSet" -> {"listing", "rating"}

\* Only the lower end of the range is checked.
validate_rating_NoUpper(data) ==
    "rating" \in DOMAIN data => data.rating >= RatingMin

validate_rating(data) ==
    "rating" \in DOMAIN data => (data.rating >= RatingMin /\ data.rating <= RatingMax)

validate_listing(data) ==
    "listing" \in DOMAIN data => data.listing \in DOMAIN listings

is_valid(view, data, partial) ==
    /\ partial \/ required_fields(view) \subseteq DOMAIN data
    /\ validate_listing(data)
    /\ validate_rating(data)

validated_data(view, data) ==
    Restrict(data, DOMAIN data \ read_only_fields(view))

Serializer(view, data) ==
    [initial_data |-> data, validated_data |-> validated_data(view, data)]

\* serializer.save(**kwargs) on create: the keyword arguments override the
\* validated data.
save(serializer, kwargs) ==
    [k \in DOMAIN serializer.validated_data \cup DOMAIN kwargs |->
        IF k \in DOMAIN kwargs THEN kwargs[k] ELSE serializer.validated_data[k]]

\* serializer.save() on update: the validated fields are set on the instance.
save_instance(instance, serializer) ==
    [k \in DOMAIN instance |->
        IF k \in DOMAIN serializer.validated_data
        THEN serializer.validated_data[k]
        ELSE instance[k]]

(***************************************************************************)
(* perform_create of the three view sets.                                  *)
(***************************************************************************)
ListingViewSet_perform_create(serializer, user) ==
    save(serializer, [host |-> user])

\* The guest is taken from the payload when the payload names one.
BookingViewSet_perform_create_FromPayload(serializer, user) ==
    save(serializer,
         [guest |-> IF "guest" \in DOMAIN serializer.initial_data
                    THEN serializer.initial_data.guest
                    ELSE user])

BookingViewSet_perform_create(serializer, user) ==
    save(serializer, [guest |-> user])

ReviewViewSet_perform_create(serializer, user) ==
    save(serializer, [user |-> user])

perform_create(view, serializer, user) ==
    CASE view = "ListingViewSet" -> ListingViewSet_perform_create(serializer, user)
      [] view = "BookingViewSet" -> BookingViewSet_perform_create(serializer, user)
      [] view = "ReviewViewSet" -> ReviewViewSet_perform_create(serializer, user)


(***************************************************************************)
(* ModelViewSet: the handlers every view set inherits.                     *)
(***************************************************************************)
NoData == [k \in {} |-> None]
NoPk == 0

method_of(action) ==
    CASE action \in {"list", "retrieve"} -> "GET"
      [] action = "create" -> "POST"
      [] action = "update" -> "PUT"
      [] action = "partial_update" -> "PATCH"
      [] action = "destroy" -> "DELETE"

Remove(table, pk) == [k \in DOMAIN table \ {pk} |-> table[k]]

\* The response of one handler and the table it leaves: permission check,
\* then object lookup, then object permission check, then validation.
ModelViewSet(view, action, method, user, pk, data) ==
    LET table == queryset(view)
        fail(e) == [outcome |-> e, table |-> table, result |-> {}, pk |-> pk]
    IN  IF ~check_permissions(view, method, user)
        THEN fail(permission_denied(user))
        ELSE IF action = None
        THEN fail("MethodNotAllowed")
        ELSE IF action = "list"
        THEN [outcome |-> "OK", table |-> table, result |-> DOMAIN table, pk |-> pk]
        ELSE IF action = "create"
        THEN IF ~is_valid(view, data, FALSE)
             THEN fail("ValidationError")
             ELSE LET new == nextPk[view]
                      row == perform_create(view, Serializer(view, data), user)
                  IN  [outcome |-> "Created", table |-> table @@ (new :> row),
                       result |-> {new}, pk |-> new]
        ELSE IF pk \notin DOMAIN table
        THEN fail("Http404")
        ELSE IF ~check_object_permissions(view, method, user, table[pk])
        THEN fail(permission_denied(user))
        ELSE IF action = "retrieve"
        THEN [outcome |-> "OK", table |-> table, result |-> {pk}, pk |-> pk]
        ELSE IF action = "destroy"
        THEN [outcome |-> "NoContent", table |-> Remove(table, pk),
              result |-> {}, pk |-> pk]
        ELSE IF ~is_valid(view, data, action = "partial_update")
        THEN fail("ValidationError")
        ELSE [outcome |-> "OK",
              table |-> [table EXCEPT
                            ![pk] = save_instance(table[pk], Serializer(view, data))],
              result |-> {pk}, pk |-> pk]

NoResp ==
    [via |-> None, view |-> None, action |-> None, method |-> None, user |-> None,
     pk |-> NoPk, data |-> NoData, outcome |-> None, result |-> {}]

RowsCreated ==
    (nextPk["ListingViewSet"] - 1) + (nextPk["BookingViewSet"] - 1)
        + (nextPk["ReviewViewSet"] - 1)

\* One request served by a view set: the response and the store after it.
Serve(via, view, action, method, user, pk, data) ==
    \E out \in {ModelViewSet(view, action, method, user, pk, data)} :
    LET made == out.outcome = "Created"
    IN  /\ made => RowsCreated < MaxRows
        /\ listings' = IF view = "ListingViewSet" THEN out.table ELSE listings
        /\ bookings' = IF view = "BookingViewSet" THEN out.table ELSE bookings
        /\ reviews' = IF view = "ReviewViewSet" THEN out.table ELSE reviews
        /\ nextPk' = IF made THEN [nextPk EXCEPT ![view] = @ + 1] ELSE nextPk
        /\ creator' = IF made THEN creator @@ (<<view, out.pk>> :> user) ELSE creator
        /\ resp' = [via |-> via, view |-> view, action |-> action, method |-> method,
                    user |-> user, pk |-> out.pk, data |-> data,
                    outcome |-> out.outcome, result |-> out.result]

ListingList ==
    /\ resp = NoResp
    /\ \E user \in Callers :
          Serve("view", "ListingViewSet", "list", "GET", user, NoPk, NoData)

ListingRetrieve ==
    /\ resp = NoResp
    /\ \E user \in Callers, pk \in Pks("ListingViewSet") :
          Serve("view", "ListingViewSet", "retrieve", "GET", user, pk, NoData)

ListingCreate ==
    /\ resp = NoResp
    /\ \E user \in Callers, data \in ListingPayloads :
          Serve("view", "ListingViewSet", "create", "POST", user, NoPk, data)

ListingUpdate ==
    /\ resp = NoResp
    /\ \E user \in Callers, pk \in Pks("ListingViewSet"), data \in ListingPayloads,
          action \in {"update", "partial_update"} :
          Serve("view", "ListingViewSet", action, method_of(action), user, pk, data)

ListingDestroy ==
    /\ resp = NoResp
    /\ \E user \in Callers, pk \in Pks("ListingViewSet") :
          Serve("view", "ListingViewSet", "destroy", "DELETE", user, pk, NoData)

BookingList ==
    /\ resp = NoResp
    /\ \E user \in Callers :
          Serve("view", "BookingViewSet", "list", "GET", user, NoPk, NoData)

BookingRetrieve ==
    /\ resp = NoResp
    /\ \E user \in Callers, pk \in Pks("BookingViewSet") :
          Serve("view", "BookingViewSet", "retrieve", "GET", user, pk, NoData)

BookingCreate ==
    /\ resp = NoResp
    /\ \E user \in Callers, data \in BookingPayloads :
          Serve("view", "BookingViewSet", "create", "POST", user, NoPk, data)

BookingUpdate ==
    /\ resp = NoResp
    /\ \E user \in Callers, pk \in Pks("BookingViewSet"), data \in BookingPayloads,
          action \in {"update", "partial_update"} :
          Serve("view", "BookingViewSet", action, method_of(action), user, pk, data)

BookingDestroy ==
    /\ resp = NoResp
    /\ \E user \in Callers, pk \in Pks("BookingViewSet") :
          Serve("view", "BookingViewSet", "destroy", "DELETE", user, pk, NoData)

ReviewList ==
    /\ resp = NoResp
    /\ \E user \in Callers :
          Serve("view", "ReviewViewSet", "list", "GET", user, NoPk, NoData)

ReviewRetrieve ==
    /\ resp = NoResp
    /\ \E user \in Callers, pk \in Pks("ReviewViewSet") :
          Serve("view", "ReviewViewSet", "retrieve", "GET", user, pk, NoData)

ReviewCreate ==
    /\ resp = NoResp
    /\ \E user \in Callers, data \in ReviewPayloads :
          Serve("view", "ReviewViewSet", "create", "POST", user, NoPk, data)

ReviewUpdate ==
    /\ resp = NoResp
    /\ \E user \in Callers, pk \in Pks("ReviewViewSet"), data \in ReviewPayloads,
          action \in {"update", "partial_update"} :
          Serve("view", "ReviewViewSet", action, method_of(action), user, pk, data)

ReviewDestroy ==
    /\ resp = NoResp
    /\ \E user \in Callers, pk \in Pks("ReviewViewSet") :
          Serve("view", "ReviewViewSet", "destroy", "DELETE", user, pk, NoData)

Init ==
    /\ listings = <<>>
    /\ bookings = <<>>
    /\ reviews = <<>>
    /\ nextPk = [view \in Views |-> 1]
    /\ creator = <<>>
    /\ resp = NoResp

\* The response is sent and the server takes the next request.
Respond ==
    /\ resp # NoResp
    /\ resp' = NoResp
    /\ UNCHANGED <<listings, bookings, reviews, nextPk, creator>>

Next ==
    \/ Respond
    \/ ListingList
    \/ ListingRetrieve
    \/ ListingCreate
    \/ ListingUpdate
    \/ ListingDestroy
    \/ BookingList
    \/ BookingRetrieve
    \/ BookingCreate
    \/ BookingUpdate
    \/ BookingDestroy
    \/ ReviewList
    \/ ReviewRetrieve
    \/ ReviewCreate
    \/ ReviewUpdate
    \/ ReviewDestroy

Spec == Init /\ [][Next]_vars

\* The listing view set alone.
ListingNext ==
    \/ Respond
    \/ ListingList
    \/ ListingRetrieve
    \/ ListingCreate
    \/ ListingUpdate
    \/ ListingDestroy

ListingSpec == Init /\ [][ListingNext]_vars

\* The booking view set, over the listings that hosts create.
BookingNext ==
    \/ Respond
    \/ ListingCreate
    \/ BookingList
    \/ BookingRetrieve
    \/ BookingCreate
    \/ BookingUpdate
    \/ BookingDestroy

BookingSpec == Init /\ [][BookingNext]_vars

\* The review view set, over the listings that hosts create.
ReviewNext ==
    \/ Respond
    \/ ListingCreate
    \/ ReviewList
    \/ ReviewRetrieve
    \/ ReviewCreate
    \/ ReviewUpdate
    \/ ReviewDestroy

ReviewSpec == Init /\ [][ReviewNext]_vars

\* The booking and review view sets together, over the listings that hosts
\* create.
GuestNext ==
    \/ Respond
    \/ ListingCreate
    \/ BookingList
    \/ BookingRetrieve
    \/ BookingCreate
    \/ BookingUpdate
    \/ BookingDestroy
    \/ ReviewList
    \/ ReviewRetrieve
    \/ ReviewCreate
    \/ ReviewUpdate
    \/ ReviewDestroy

GuestSpec == Init /\ [][GuestNext]_vars

(***************************************************************************)
(* urls.py: the router and the requests that come in through it.           *)
(***************************************************************************)
router_registry ==
    { [prefix |-> "listings", viewset |-> "ListingViewSet", basename |-> "listing"] }

Prefixes == {"listings", "bookings", "reviews"}

HttpMethods == {"GET", "POST", "PUT", "PATCH", "DELETE"}

\* The view set a resource's clients address, whether or not it is routed.
ResourceView(prefix) ==
    CASE prefix = "listings" -> "ListingViewSet"
      [] prefix = "bookings" -> "BookingViewSet"
      [] prefix = "reviews" -> "ReviewViewSet"

\* DefaultRouter's routes: the collection path and the item path of a prefix.
route_action(detail, method) ==
    IF detail
    THEN CASE method = "GET" -> "retrieve"
           [] method = "PUT" -> "update"
           [] method = "PATCH" -> "partial_update"
           [] method = "DELETE" -> "destroy"
           [] OTHER -> None
    ELSE CASE method = "GET" -> "list"
           [] method = "POST" -> "create"
           [] OTHER -> None

resolve(prefix) == { r.viewset : r \in { q \in router_registry : q.prefix = prefix } }

HttpRequest ==
    /\ resp = NoResp
    /\ \E prefix \in Prefixes, detail \in BOOLEAN, method \in HttpMethods,
       user \in Callers :
        \E pk \in (IF detail THEN Pks(ResourceView(prefix)) ELSE {NoPk}),
           data \in (IF method \in {"POST", "PUT", "PATCH"}
                     THEN Payloads(ResourceView(prefix)) ELSE {NoData}) :
        IF resolve(prefix) = {}
        THEN /\ resp' = [via |-> prefix, view |-> None,
                         action |-> route_action(detail, method), method |-> method,
                         user |-> user, pk |-> pk, data |-> data,
                         outcome |-> "Resolver404", result |-> {}]
             /\ UNCHANGED <<listings, bookings, reviews, nextPk, creator>>
        ELSE \E view \in resolve(prefix) :
                Serve(prefix, view, route_action(detail, method), method, user, pk, data)

RouterNext ==
    \/ Respond
    \/ HttpRequest

RouterSpec == Init /\ [][RouterNext]_vars

(***************************************************************************)
(* Properties.  A step that serves a request leaves it and its response in *)
(* resp', with the store before the step in the unprimed variables.        *)
(***************************************************************************)
Writes == {"update", "partial_update", "destroy"}

owner_field(view) ==
    CASE view = "ListingViewSet" -> "host"
      [] view = "BookingViewSet" -> "guest"
      [] view = "ReviewViewSet" -> "user"

\* C1: an update or destroy of an existing listing by an authenticated caller
\* other than its host is refused with PermissionDenied and leaves every
\* listing as it was; the host is never refused, his destroy removes the
\* listing and his update with a valid payload is applied; so a listing
\* changes or disappears only in a request of its host.
C1_OnlyHostModifies ==
    [][ /\ ( /\ resp'.view = "ListingViewSet"
             /\ resp'.action \in Writes
             /\ is_authenticated(resp'.user)
             /\ resp'.pk \in DOMAIN listings )
           => IF resp'.user # listings[resp'.pk].host
              THEN /\ resp'.outcome = "PermissionDenied"
                   /\ listings' = listings
              ELSE /\ resp'.outcome \in {"OK", "NoContent", "ValidationError"}
                   /\ resp'.action = "destroy" =>
                         /\ resp'.outcome = "NoContent"
                         /\ resp'.pk \notin DOMAIN listings'
                   /\ ( /\ resp'.action # "destroy"
                        /\ is_valid("ListingViewSet", resp'.data,
                                    resp'.action = "partial_update") ) =>
                         /\ resp'.outcome = "OK"
                         /\ resp'.pk \in DOMAIN listings'
                         /\ \A f \in DOMAIN resp'.data \ {"host"} :
                               listings'[resp'.pk][f] = resp'.data[f]
        /\ \A pk \in DOMAIN listings :
              (pk \notin DOMAIN listings' \/ listings'[pk] # listings[pk])
                 => resp'.user = listings[pk].host
      ]_vars

C1_Witness ==
    /\ resp.view = "ListingViewSet"
    /\ resp.action \in Writes
    /\ is_authenticated(resp.user)
    /\ resp.pk \in DOMAIN listings
    /\ listings[resp.pk].host # resp.user
    /\ resp.outcome = "PermissionDenied"

\* C2: after every successful create the owner field of the created row is
\* the authenticated caller, whatever owner the payload names: host for a
\* listing, guest for a booking, user for a review.
C2_OwnerIsCaller ==
    resp.outcome = "Created" =>
        /\ is_authenticated(resp.user)
        /\ resp.pk \in DOMAIN queryset(resp.view)
        /\ queryset(resp.view)[resp.pk][owner_field(resp.view)] = resp.user

C2_Witness ==
    /\ resp.outcome = "Created"
    /\ resp.view = "BookingViewSet"
    /\ "guest" \in DOMAIN resp.data
    /\ resp.data.guest # resp.user
    /\ bookings[resp.pk].guest = resp.user

\* C3: in every reachable state the host of every persisted listing is the
\* authenticated caller that created it, whatever updates have been applied.
C3_HostImmutable ==
    \A pk \in DOMAIN listings :
        /\ is_authenticated(listings[pk].host)
        /\ listings[pk].host = creator[<<"ListingViewSet", pk>>]

C3_Witness ==
    /\ resp.view = "ListingViewSet"
    /\ resp.action \in {"update", "partial_update"}
    /\ resp.outcome = "OK"
    /\ "host" \in DOMAIN resp.data
    /\ resp.data.host # resp.user
    /\ listings[resp.pk].host = resp.user

\* C4: for an unauthenticated caller, list succeeds with every listing and
\* retrieve of an existing listing succeeds, while create, update and destroy
\* are refused (NotAuthenticated or PermissionDenied) and leave the listings
\* unchanged.
C4_AnonymousListing ==
    [][ ( /\ resp'.view = "ListingViewSet"
          /\ resp'.user = AnonymousUser )
        => /\ resp'.action = "list" =>
                /\ resp'.outcome = "OK"
                /\ resp'.result = DOMAIN listings
           /\ (resp'.action = "retrieve" /\ resp'.pk \in DOMAIN listings) =>
                /\ resp'.outcome = "OK"
                /\ resp'.result = {resp'.pk}
           /\ resp'.action \in Writes \cup {"create"} =>
                /\ resp'.outcome \in {"NotAuthenticated", "PermissionDenied"}
                /\ resp'.result = {}
           /\ listings' = listings
      ]_vars

C4_Witness ==
    /\ resp.view = "ListingViewSet"
    /\ resp.user = AnonymousUser
    /\ resp.action = "destroy"
    /\ resp.pk \in DOMAIN listings
    /\ resp.outcome = "NotAuthenticated"

\* C5: every operation of the booking and review view sets by an
\* unauthenticated caller fails with NotAuthenticated, returns no row and
\* leaves the store unchanged.
C5_NoAnonymousAccess ==
    [][ ( /\ resp'.view \in {"BookingViewSet", "ReviewViewSet"}
          /\ resp'.user = AnonymousUser )
        => /\ resp'.outcome = "NotAuthenticated"
           /\ resp'.result = {}
           /\ UNCHANGED <<listings, bookings, reviews>>
      ]_vars

C5_Witness ==
    /\ resp.view = "ReviewViewSet"
    /\ resp.user = AnonymousUser
    /\ resp.action = "list"
    /\ DOMAIN reviews # {}
    /\ resp.outcome = "NotAuthenticated"

\* C6: a review create by an authenticated caller with a rating outside
\* RatingMin..RatingMax fails with ValidationError and persists nothing; with
\* a rating inside the range and a listing that exists it succeeds and the
\* rating is persisted; every persisted review has a rating in the range.
C6_RatingEnforced ==
    [][ /\ ( /\ resp'.view = "ReviewViewSet"
             /\ resp'.action = "create"
             /\ is_authenticated(resp'.user)
             /\ "rating" \in DOMAIN resp'.data )
           => IF resp'.data.rating \notin RatingMin .. RatingMax
              THEN /\ resp'.outcome = "ValidationError"
                   /\ reviews' = reviews
              ELSE ( /\ "listing" \in DOMAIN resp'.data
                     /\ resp'.data.listing \in DOMAIN listings ) =>
                        /\ resp'.outcome = "Created"
                        /\ DOMAIN reviews' = DOMAIN reviews \cup {resp'.pk}
                        /\ resp'.pk \notin DOMAIN reviews
                        /\ reviews'[resp'.pk].rating = resp'.data.rating
        /\ \A pk \in DOMAIN reviews' :
              reviews'[pk].rating \in RatingMin .. RatingMax
      ]_vars

C6_Witness ==
    /\ resp.view = "ReviewViewSet"
    /\ resp.action = "create"
    /\ is_authenticated(resp.user)
    /\ "listing" \in DOMAIN resp.data
    /\ resp.data.listing \in DOMAIN listings
    /\ "rating" \in DOMAIN resp.data
    /\ resp.data.rating = RatingMax + 1
    /\ resp.outcome = "ValidationError"
    /\ DOMAIN reviews # {}

\* C7: no two persisted reviews have the same (user, listing) pair.
C7_OneReviewPerListing ==
    \A p, q \in DOMAIN reviews :
        p # q => <<reviews[p].user, reviews[p].listing>>
                    # <<reviews[q].user, reviews[q].listing>>

\* C8: the result of list() on bookings for an authenticated caller who is
\* not an admin (no user of the model is one) holds only bookings whose
\* guest is the caller.
C8_OwnBookingsOnly ==
    ( /\ resp.view = "BookingViewSet"
      /\ resp.action = "list"
      /\ resp.user \in Users
      /\ resp.outcome = "OK" )
    => \A pk \in resp.result : bookings[pk].guest = resp.user

\* C9: an authenticated POST with a valid payload to /bookings/ or /reviews/
\* reaches the view set of that resource and creates the row.
C9_AllResourcesRouted ==
    ( /\ resp.via \in {"bookings", "reviews"}
      /\ resp.method = "POST"
      /\ resp.action = "create"
      /\ is_authenticated(resp.user)
      /\ is_valid(ResourceView(resp.via), resp.data, FALSE) )
    => /\ resp.view = ResourceView(resp.via)
       /\ resp.outcome = "Created"

\* C10: for PUT, PATCH and DELETE on a listing id the checks run in the order
\* authentication, existence, ownership: an unauthenticated caller gets
\* NotAuthenticated whether or not the id exists; an authenticated caller on
\* an absent id gets Http404; PermissionDenied is given exactly to an
\* authenticated caller who is not the host of an existing listing.
C10_CheckOrder ==
    [][ ( /\ resp'.view = "ListingViewSet"
          /\ resp'.action \in Writes )
        => /\ ~is_authenticated(resp'.user) => resp'.outcome = "NotAuthenticated"
           /\ ( /\ is_authenticated(resp'.user)
                /\ resp'.pk \notin DOMAIN listings ) => resp'.outcome = "Http404"
           /\ resp'.outcome = "PermissionDenied" <=>
                /\ is_authenticated(resp'.user)
                /\ resp'.pk \in DOMAIN listings
                /\ listings[resp'.pk].host # resp'.user
      ]_vars

C10_Witness ==
    /\ resp.view = "ListingViewSet"
    /\ resp.action \in Writes
    /\ resp.user = AnonymousUser
    /\ resp.pk \notin DOMAIN listings
    /\ DOMAIN listings # {}
    /\ resp.outcome = "NotAuthenticated"

=============================================================================
